---- MODULE Spec2Model ----
(***************************************************************************)
(* Model of the page-synchronisation core of the Vibe Architect client:    *)
(*   - isValidPage and mergePages            (src/App.tsx, lines 9-33)     *)
(*   - the App component's state and handlers (src/App.tsx, lines 35-103)  *)
(*   - the chat UI's guards on sending       (src/components/              *)
(*                                             ChatInterface.tsx)          *)
(*   - the preview's page selection, message listener and processHtml      *)
(*                                     (src/components/PreviewArea.tsx)    *)
(*   - the single-file generation service (src/services/geminiService.ts)  *)
(* JavaScript values are modelled with their runtime type, so that the     *)
(* validator is exercised on untyped candidates as it is in the program.   *)
(***************************************************************************)
EXTENDS Integers, Sequences, FiniteSets, TLC

VARIABLES
    \* ---- App component state (src/App.tsx:36-39)
    messages,      \* Message[]: the chat transcript
    latestPages,   \* Page[] | null: the current page set
    isLoading,     \* boolean
    error,         \* string | null: the error banner
    \* ---- invocations of handleSendMessage suspended at the await (App.tsx:49)
    inflight,      \* each holds the prompt and the latestPages its closure captured
    \* ---- history variable: the last handler that ran and what it saw
    last,
    \* ---- harness for the pure predicate isValidPage
    cand, verdict,
    \* ---- harness for the pure function mergePages
    mCurrent, mIncoming, mOnce, mTwice, mpc,
    \* ---- PreviewArea component (src/components/PreviewArea.tsx:11-59)
    pvPages,       \* the pages prop
    activePageId,  \* string | null
    navToken,      \* navTokenRef.current
    pvLast,        \* history: the last event the component handled
    \* ---- harness for the pure function processHtml
    hIn, hOnce, hTwice, hpc,
    \* ---- history: the text the backend returned for the last settled call
    backendText

appVars   == <<messages, latestPages, isLoading, error, inflight, last>>
validVars == <<cand, verdict>>
mergeVars == <<mCurrent, mIncoming, mOnce, mTwice, mpc>>
previewVars == <<pvPages, activePageId, navToken, pvLast>>
htmlVars  == <<hIn, hOnce, hTwice, hpc>>
serviceVars == <<backendText>>
vars      == <<messages, latestPages, isLoading, error, inflight, last,
               cand, verdict, mCurrent, mIncoming, mOnce, mTwice, mpc,
               pvPages, activePageId, navToken, pvLast,
               hIn, hOnce, hTwice, hpc, backendText>>

-----------------------------------------------------------------------------
(* JavaScript values.                                                      *)
(* A primitive is [kind, text, pad]; for a string, the value is the        *)
(* characters of text followed by pad copies of a filler character that   *)
(* is not whitespace, so that strings of several hundred thousand          *)
(* characters can be written.                                              *)
(* Other kinds carry text = <<>> and pad = 0.                              *)

\* The size limit of a page's content (App.tsx:19).
MaxContentLen == 600000

\* Characters matched by the regular expression class \s that the model uses.
Whitespace == {" ", "\t", "\n"}

Str(text, pad) == [kind |-> "string", text |-> text, pad |-> pad]
S(text)        == Str(text, 0)
Undefined      == [kind |-> "undefined", text |-> <<>>, pad |-> 0]
Number         == [kind |-> "number", text |-> <<>>, pad |-> 0]

\* s.length
StrLength(s) == Len(s.text) + s.pad

\* /\s/.test(s)
HasWhitespace(s) == \E i \in 1..Len(s.text) : s.text[i] \in Whitespace

(* A candidate handed to isValidPage is [kind, id, title, content]: kind   *)
(* is the runtime kind of the candidate itself and the three fields are    *)
(* the primitives its properties hold (Undefined for a missing property,   *)
(* as a property read yields in JavaScript).                               *)
Obj(id, title, content) ==
    [kind |-> "object", id |-> id, title |-> title, content |-> content]
NonObj(k) == [kind |-> k, id |-> Undefined, title |-> Undefined, content |-> Undefined]
Null      == NonObj("null")

\* A well-typed Page (types.ts:1-5): an object with three string fields.
Page(id, title, content) == Obj(S(id), S(title), S(content))

\* typeof v
TypeOf(v) == IF v.kind = "null" THEN "object" ELSE v.kind

\* v[f]: reading a property of null or undefined throws a TypeError; a
\* property of another primitive reads as undefined.
TypeError == [kind |-> "TypeError", text |-> <<>>, pad |-> 0]
Prop(v, f) ==
    IF v.kind \in {"null", "undefined"} THEN TypeError
    ELSE IF v.kind = "object" THEN v[f]
    ELSE Undefined

-----------------------------------------------------------------------------
(* isValidPage (App.tsx:9-21): the conjuncts of the && chain in order,     *)
(* each evaluated only when the ones before it are true.  The result is    *)
(* "true", "false" or "throw".                                             *)

\* A variant with the size limit off by one (<= instead of <).
isValidPageEval_SizeOffByOne(page) ==
    IF TypeOf(page) # "object" THEN "false"
    ELSE IF page.kind = "null" THEN "false"
    ELSE IF TypeOf(Prop(page, "id")) # "string" THEN "false"
    ELSE IF HasWhitespace(Prop(page, "id")) THEN "false"
    ELSE IF ~(StrLength(Prop(page, "id")) > 0) THEN "false"
    ELSE IF TypeOf(Prop(page, "title")) # "string" THEN "false"
    ELSE IF TypeOf(Prop(page, "content")) # "string" THEN "false"
    ELSE IF ~(StrLength(Prop(page, "content")) > 0) THEN "false"
    ELSE IF ~(StrLength(Prop(page, "content")) <= MaxContentLen) THEN "false"
    ELSE "true"

isValidPageEval(page) ==
    IF TypeOf(page) # "object" THEN "false"
    ELSE IF page.kind = "null" THEN "false"
    ELSE IF Prop(page, "id") = TypeError THEN "throw"
    ELSE IF TypeOf(Prop(page, "id")) # "string" THEN "false"
    ELSE IF HasWhitespace(Prop(page, "id")) THEN "false"
    ELSE IF ~(StrLength(Prop(page, "id")) > 0) THEN "false"
    ELSE IF TypeOf(Prop(page, "title")) # "string" THEN "false"
    ELSE IF TypeOf(Prop(page, "content")) # "string" THEN "false"
    ELSE IF ~(StrLength(Prop(page, "content")) > 0) THEN "false"
    ELSE IF ~(StrLength(Prop(page, "content")) < MaxContentLen) THEN "false"
    ELSE "true"

isValidPage(page) == isValidPageEval(page) = "true"

-----------------------------------------------------------------------------
(* The JavaScript Map used by mergePages, as the sequence of its entries   *)
(* in insertion order.  Map.prototype.set keeps the position of a key      *)
(* that is already present and appends a new key at the end.               *)

MapHas(m, k) == \E i \in 1..Len(m) : m[i].key = k

\* A variant of set that appends an entry whether or not the key is present.
MapSet_AlwaysAppend(m, k, v) == Append(m, [key |-> k, value |-> v])

\* A variant of set that moves an updated key to the end (delete + insert).
MapSet_MoveToEnd(m, k, v) ==
    SelectSeq(m, LAMBDA e : e.key # k) \o <<[key |-> k, value |-> v]>>

MapSet(m, k, v) ==
    IF MapHas(m, k)
    THEN [i \in 1..Len(m) |-> IF m[i].key = k THEN [key |-> k, value |-> v] ELSE m[i]]
    ELSE Append(m, [key |-> k, value |-> v])

\* new Map(entries): the entries are set one after the other.
RECURSIVE MapFrom(_, _)
MapFrom(m, entries) ==
    IF entries = <<>> THEN m
    ELSE MapFrom(MapSet(m, Head(entries).key, Head(entries).value), Tail(entries))

\* Array.from(map.values())
MapValues(m) == [i \in 1..Len(m) |-> m[i].value]

-----------------------------------------------------------------------------
(* mergePages (App.tsx:23-33).                                             *)

\* A variant of the forEach callback in which the first entry for an id wins.
Upsert_KeepFirst(pageMap, page) ==
    IF isValidPage(page) /\ ~MapHas(pageMap, page.id)
    THEN MapSet(pageMap, page.id, page)
    ELSE pageMap

\* The forEach callback (App.tsx:26-30).
Upsert(pageMap, page) ==
    IF isValidPage(page) THEN MapSet(pageMap, page.id, page) ELSE pageMap

RECURSIVE ForEachUpsert(_, _)
ForEachUpsert(pageMap, incoming) ==
    IF incoming = <<>> THEN pageMap
    ELSE ForEachUpsert(Upsert(pageMap, Head(incoming)), Tail(incoming))

\* response.pages.filter(isValidPage) (App.tsx:51)
FilterValid(pages) == SelectSeq(pages, isValidPage)

\* A variant that appends the valid incoming pages without looking at ids.
mergePages_Concat(current, incoming) == current \o FilterValid(incoming)

\* A variant that starts from an empty map instead of the current pages.
mergePages_DropCurrent(current, incoming) ==
    MapValues(ForEachUpsert(<<>>, incoming))

mergePages(current, incoming) ==
    MapValues(ForEachUpsert(
        MapFrom(<<>>, [i \in 1..Len(current) |-> [key |-> current[i].id, value |-> current[i]]]),
        incoming))

-----------------------------------------------------------------------------
(* Inputs of the isValidPage harness.                                      *)

MaxIdLen == 2
IdChars  == {"a", " ", "\n"}

SeqsUpTo(S_, n) == UNION {[1..k -> S_] : k \in 0..n}

IdValues      == {Undefined, Number} \cup {S(t) : t \in SeqsUpTo(IdChars, MaxIdLen)}
TitleValues   == {Undefined, Number, S(<<>>), S(<<"T">>)}
ContentValues ==
    {Undefined, Number}
    \cup {Str(t, p) : t \in {<<>>, <<"p">>},
                      p \in {0, MaxContentLen - 2, MaxContentLen - 1, MaxContentLen}}

Candidates ==
    {NonObj(k) : k \in {"undefined", "null", "number", "string"}}
    \cup {Obj(i, t, c) : i \in IdValues, t \in TitleValues, c \in ContentValues}

-----------------------------------------------------------------------------
(* App component: initial state (App.tsx:36-39).                           *)

NullPages     == [null |-> TRUE, list |-> <<>>]
SomePages(l)  == [null |-> FALSE, list |-> l]
\* latestPages || []
OrEmpty(lp)   == IF lp.null THEN <<>> ELSE lp.list

NoError == "null"

AppInit ==
    /\ messages = <<>>
    /\ latestPages = NullPages
    /\ isLoading = FALSE
    /\ error = NoError
    /\ inflight = <<>>
    /\ last = [op |-> "init", prePages |-> NullPages, preMessages |-> <<>>,
               preError |-> NoError, preLoading |-> FALSE, preInflight |-> <<>>,
               captured |-> NullPages, resp |-> <<>>,
               pageId |-> Undefined, newContent |-> Undefined]

\* null as a primitive value.
JsNull == [kind |-> "null", text |-> <<>>, pad |-> 0]

\* What a cross-frame message event carries: its data is [kind, type, token,
\* pageId], kind being the runtime kind of event.data itself.
MsgObj(type, token, pageId) ==
    [kind |-> "object", type |-> type, token |-> token, pageId |-> pageId]
MsgNonObj(k) ==
    [kind |-> k, type |-> Undefined, token |-> Undefined, pageId |-> Undefined]

PreviewIdle ==
    /\ pvPages = NullPages
    /\ activePageId = JsNull
    /\ navToken = S(<<"t1">>)
    /\ pvLast = [op |-> "idle", data |-> MsgNonObj("undefined"), threw |-> FALSE,
                 preActive |-> JsNull, prePages |-> NullPages]

HtmlIdle == hIn = <<>> /\ hOnce = <<>> /\ hTwice = <<>> /\ hpc = "idle"

\* A piece of the text a backend response carries (see generateVibe below).
Seg(t) == [t |-> t, files |-> <<>>]
NoText == <<Seg("no call settled")>>
ServiceIdle == backendText = NoText

ValidIdle == cand = Null /\ verdict = "none"
MergeIdle ==
    /\ mCurrent = <<>> /\ mIncoming = <<>>
    /\ mOnce = <<>> /\ mTwice = <<>> /\ mpc = "idle"

-----------------------------------------------------------------------------
(* Specification of the isValidPage harness.                               *)

InitValid ==
    /\ AppInit /\ MergeIdle /\ PreviewIdle /\ HtmlIdle /\ ServiceIdle
    /\ cand \in Candidates
    /\ verdict = "none"

CheckPage ==
    /\ verdict = "none"
    /\ verdict' = isValidPageEval(cand)
    /\ UNCHANGED <<cand, appVars, mergeVars, previewVars, htmlVars, serviceVars>>

NextValid == CheckPage

SpecValid == InitValid /\ [][NextValid]_vars

-----------------------------------------------------------------------------
(* Specification of the mergePages harness: merge once, then merge the     *)
(* same incoming list onto the result.                                     *)

MaxCurrent  == 2
MaxIncoming == 3

Old(id)  == Page(id, <<"T">>, <<"o">>)
New(id)  == Page(id, <<"N">>, <<"n">>)
New2(id) == Page(id, <<"M">>, <<"m">>)
\* A page whose content the editor emptied (handleUpdatePage, App.tsx:96-103).
Emptied(id) == Page(id, <<"T">>, <<>>)

\* Pages the current list is drawn from: well-typed, ids may repeat.
CurrentPool  == {Old(<<"a">>), Old(<<"b">>), Emptied(<<"a">>)}
\* Pages of a response: valid ones, and candidates isValidPage rejects.
IncomingPool == {New(<<"a">>), New(<<"c">>), New2(<<"c">>), New(<<"d">>),
                 Emptied(<<"a">>), Null}

InitMerge ==
    /\ AppInit /\ ValidIdle /\ PreviewIdle /\ HtmlIdle /\ ServiceIdle
    /\ mCurrent \in SeqsUpTo(CurrentPool, MaxCurrent)
    /\ mIncoming \in SeqsUpTo(IncomingPool, MaxIncoming)
    /\ mOnce = <<>> /\ mTwice = <<>>
    /\ mpc = "start"

MergeOnce ==
    /\ mpc = "start"
    /\ mOnce' = mergePages(mCurrent, mIncoming)
    /\ mpc' = "merged"
    /\ UNCHANGED <<mCurrent, mIncoming, mTwice, appVars, validVars, previewVars, htmlVars, serviceVars>>

MergeAgain ==
    /\ mpc = "merged"
    /\ mTwice' = mergePages(mOnce, mIncoming)
    /\ mpc' = "remerged"
    /\ UNCHANGED <<mCurrent, mIncoming, mOnce, appVars, validVars, previewVars, htmlVars, serviceVars>>

NextMerge == MergeOnce \/ MergeAgain

SpecMerge == InitMerge /\ [][NextMerge]_vars

-----------------------------------------------------------------------------
(* The App component (App.tsx:35-103) with the chat UI's guards.           *)
(*                                                                         *)
(* handleSendMessage is an async function created by one render: the       *)
(* latestPages it reads after the await (App.tsx:58) is the value its      *)
(* closure captured when it was called, while the functional updates       *)
(* setMessages(prev => ...) see the transcript of the moment they run.     *)
(* An invocation suspended at the await is an entry of inflight.           *)

MaxMsgs == 4
MaxResp == 2

Prompts  == {"p1"}
PageIds  == {S(<<"a">>), S(<<"b">>)}
\* Texts the code editor may hold when "Run Changes" is pressed.
EditorContents == {S(<<>>)}
\* Candidates a response's pages array is drawn from; Emptied is invalid.
ResponsePool == {New(<<"a">>), Old(<<"b">>), Emptied(<<"b">>)}
Responses    == SeqsUpTo(ResponsePool, MaxResp)

ErrorText == "Failed to generate design. Please check your API key or try again."
Apology   ==
    "I encountered an error while trying to visualize that. Could you try rephrasing?"
ChatResponse == "chat_response"

\* Message values (types.ts:20-29); pages is metadata.pages, NullPages if absent.
\* response.suggestions (App.tsx:67): every modelled response offers one follow-up.
ResponseSuggestions == <<"s1">>

\* suggestions is metadata.suggestions, <<>> if absent.
UserMessage(prompt) ==
    [role |-> "user", content |-> prompt, type |-> "none", pages |-> NullPages,
     suggestions |-> <<>>]
BotMessage(updatedPages) ==
    [role |-> "model", content |-> ChatResponse, type |-> "code_preview",
     pages |-> SomePages(updatedPages), suggestions |-> ResponseSuggestions]
ApologyMessage ==
    [role |-> "model", content |-> Apology, type |-> "none", pages |-> NullPages,
     suggestions |-> <<>>]

RemoveAt(s, i) == SubSeq(s, 1, i - 1) \o SubSeq(s, i + 1, Len(s))

\* What the history variable records of a handler run.
Event(op, captured, resp) ==
    [op |-> op, prePages |-> latestPages, preMessages |-> messages,
     preError |-> error, preLoading |-> isLoading, preInflight |-> inflight,
     captured |-> captured, resp |-> resp,
     pageId |-> Undefined, newContent |-> Undefined]

\* The chat UI lets a prompt be sent only while isLoading is false
\* (ChatInterface.tsx:57, 127, 223, 293).
SendEnabled == ~isLoading

\* handleSendMessage up to the await (App.tsx:41-49).  The handler itself has
\* no guard; the entry points of the chat UI below decide when it is called.
handleSendMessage(userPrompt) ==
    /\ Len(messages) + 2 <= MaxMsgs
    /\ messages' = Append(messages, UserMessage(userPrompt))
    /\ isLoading' = TRUE
    /\ error' = NoError
    /\ inflight' = Append(inflight, [prompt |-> userPrompt, latestPages |-> latestPages])
    /\ last' = Event("send", latestPages, <<>>)
    /\ UNCHANGED latestPages

\* The page set a resolved invocation commits (App.tsx:51, 58): the merge is
\* onto the latestPages captured by the invocation's closure.
UpdatedPages(call, response) ==
    mergePages(OrEmpty(call.latestPages), FilterValid(response))

\* generateVibe resolves: the rest of the try block and finally (App.tsx:49-72, 81-83).
ResolveSend(i, response) ==
    /\ messages' = Append(messages, BotMessage(UpdatedPages(inflight[i], response)))
    /\ latestPages' = SomePages(UpdatedPages(inflight[i], response))
    /\ isLoading' = FALSE
    /\ inflight' = RemoveAt(inflight, i)
    /\ last' = Event("resolve", inflight[i].latestPages, response)
    /\ UNCHANGED error

\* A variant of the catch branch that also puts back the page set of request time.
RejectSend_Rollback(i) ==
    /\ error' = ErrorText
    /\ messages' = Append(messages, ApologyMessage)
    /\ isLoading' = FALSE
    /\ inflight' = RemoveAt(inflight, i)
    /\ last' = Event("reject", inflight[i].latestPages, <<>>)
    /\ latestPages' = inflight[i].latestPages

\* generateVibe rejects: catch and finally (App.tsx:74-83).
RejectSend(i) ==
    /\ error' = ErrorText
    /\ messages' = Append(messages, ApologyMessage)
    /\ isLoading' = FALSE
    /\ inflight' = RemoveAt(inflight, i)
    /\ last' = Event("reject", inflight[i].latestPages, <<>>)
    /\ UNCHANGED latestPages

\* A variant of the failure path without the finally block.
HandlingThrows_NoFinally(i) ==
    /\ error' = ErrorText
    /\ messages' = Append(messages, ApologyMessage)
    /\ inflight' = RemoveAt(inflight, i)
    /\ last' = Event("throw", inflight[i].latestPages, <<>>)
    /\ UNCHANGED <<latestPages, isLoading>>

\* generateVibe resolves with a value whose pages property is no array (the
\* service returns the parsed JSON unchecked): response.pages.filter throws
\* inside the try block (App.tsx:51), and catch and finally run (App.tsx:74-83).
HandlingThrows(i) ==
    /\ error' = ErrorText
    /\ messages' = Append(messages, ApologyMessage)
    /\ isLoading' = FALSE
    /\ inflight' = RemoveAt(inflight, i)
    /\ last' = Event("throw", inflight[i].latestPages, <<>>)
    /\ UNCHANGED latestPages

\* A variant of handleClear that also drops the loading flag.
handleClear_StopsLoading ==
    /\ messages' = <<>>
    /\ latestPages' = NullPages
    /\ error' = NoError
    /\ isLoading' = FALSE
    /\ last' = Event("clear", NullPages, <<>>)
    /\ UNCHANGED inflight

\* A variant of handleClear that leaves the page set in place.
handleClear_KeepsPages ==
    /\ messages' = <<>>
    /\ error' = NoError
    /\ last' = Event("clear", NullPages, <<>>)
    /\ UNCHANGED <<latestPages, isLoading, inflight>>

\* handleClear (App.tsx:86-90).
handleClear ==
    /\ messages' = <<>>
    /\ latestPages' = NullPages
    /\ error' = NoError
    /\ last' = Event("clear", NullPages, <<>>)
    /\ UNCHANGED <<isLoading, inflight>>

\* A variant of restore that merges the snapshot onto the current pages.
handleRestoreVersion_Merge(m) ==
    /\ ~messages[m].pages.null
    /\ Len(messages[m].pages.list) > 0
    /\ latestPages' = SomePages(mergePages(OrEmpty(latestPages), messages[m].pages.list))
    /\ last' = Event("restore", messages[m].pages, <<>>)
    /\ UNCHANGED <<messages, isLoading, error, inflight>>

\* A variant of restore that also cuts the transcript back to the restored turn.
handleRestoreVersion_Truncate(m) ==
    /\ ~messages[m].pages.null
    /\ Len(messages[m].pages.list) > 0
    /\ latestPages' = SomePages(messages[m].pages.list)
    /\ messages' = SubSeq(messages, 1, m)
    /\ last' = Event("restore", messages[m].pages, <<>>)
    /\ UNCHANGED <<isLoading, error, inflight>>

\* handleRestoreVersion (App.tsx:92-94), reached from the "Load this version"
\* button of a message that holds a non-empty snapshot (ChatInterface.tsx:203-213).
handleRestoreVersion(m) ==
    /\ ~messages[m].pages.null
    /\ Len(messages[m].pages.list) > 0
    /\ latestPages' = SomePages(messages[m].pages.list)
    /\ last' = Event("restore", messages[m].pages, <<>>)
    /\ UNCHANGED <<messages, isLoading, error, inflight>>

\* A variant of the map that sets the content of every page.
WithContent_AllPages(pages, pageId, newContent) ==
    [i \in 1..Len(pages) |-> [pages[i] EXCEPT !.content = newContent]]

\* latestPages.map(p => p.id === pageId ? {...p, content: newContent} : p)
WithContent(pages, pageId, newContent) ==
    [i \in 1..Len(pages) |->
        IF pages[i].id = pageId THEN [pages[i] EXCEPT !.content = newContent]
        ELSE pages[i]]

\* A variant of handleUpdatePage that writes the content into the page objects
\* in place, so that a stored snapshot holding the same objects changes too.
handleUpdatePage_InPlace(pageId, newContent) ==
    /\ latestPages' =
          IF latestPages.null THEN latestPages
          ELSE SomePages(WithContent(latestPages.list, pageId, newContent))
    /\ messages' =
          [m \in 1..Len(messages) |->
              IF ~latestPages.null /\ messages[m].pages = latestPages
              THEN [messages[m] EXCEPT
                       !.pages = SomePages(WithContent(latestPages.list, pageId, newContent))]
              ELSE messages[m]]
    /\ last' = [Event("update", NullPages, <<>>) EXCEPT
                   !.pageId = pageId, !.newContent = newContent]
    /\ UNCHANGED <<isLoading, error, inflight>>

\* handleUpdatePage (App.tsx:96-103).
handleUpdatePage(pageId, newContent) ==
    /\ latestPages' =
          IF latestPages.null THEN latestPages
          ELSE SomePages(WithContent(latestPages.list, pageId, newContent))
    /\ last' = [Event("update", NullPages, <<>>) EXCEPT
                   !.pageId = pageId, !.newContent = newContent]
    /\ UNCHANGED <<messages, isLoading, error, inflight>>

-----------------------------------------------------------------------------
(* The entry points of ChatInterface that call onSendMessage.              *)

\* What the text input may hold on submit; " " is blank after trim().
FormInputs     == Prompts \cup {" "}
TemplatePrompt == "t1"
Trimmed(input) == IF input = " " THEN "" ELSE input

\* A variant of the starter-template button without disabled={isLoading}.
TemplateEnabled_NotDisabled == Len(messages) = 0

\* handleSubmit's condition (ChatInterface.tsx:57).
SubmitEnabled(input) == Trimmed(input) # "" /\ SendEnabled
\* The starter templates are rendered while the transcript is empty and are
\* disabled while loading (ChatInterface.tsx:110, 123-135).
TemplateEnabled == Len(messages) = 0 /\ SendEnabled
\* A suggestion chip of model message m, disabled while loading
\* (ChatInterface.tsx:217-231).
ChipEnabled(m, k) ==
    /\ messages[m].role = "model"
    /\ k \in 1..Len(messages[m].suggestions)
    /\ SendEnabled

\* handleSubmit (ChatInterface.tsx:55-61).
SubmitForm(input) == SubmitEnabled(input) /\ handleSendMessage(input)
\* onClick of a starter template (ChatInterface.tsx:126).
ClickTemplate == TemplateEnabled /\ handleSendMessage(TemplatePrompt)
\* onClick of a suggestion chip (ChatInterface.tsx:222).
ClickChip(m, k) == ChipEnabled(m, k) /\ handleSendMessage(messages[m].suggestions[k])

Init == AppInit /\ ValidIdle /\ MergeIdle /\ PreviewIdle /\ HtmlIdle /\ ServiceIdle

Next ==
    \/ \E input \in FormInputs : SubmitForm(input) /\ UNCHANGED <<validVars, mergeVars, previewVars, htmlVars, serviceVars>>
    \/ ClickTemplate /\ UNCHANGED <<validVars, mergeVars, previewVars, htmlVars, serviceVars>>
    \/ \E m \in 1..Len(messages) : \E k \in 1..Len(messages[m].suggestions) :
          ClickChip(m, k) /\ UNCHANGED <<validVars, mergeVars, previewVars, htmlVars, serviceVars>>
    \/ \E i \in 1..Len(inflight), r \in Responses :
          ResolveSend(i, r) /\ UNCHANGED <<validVars, mergeVars, previewVars, htmlVars, serviceVars>>
    \/ \E i \in 1..Len(inflight) : RejectSend(i) /\ UNCHANGED <<validVars, mergeVars, previewVars, htmlVars, serviceVars>>
    \/ \E i \in 1..Len(inflight) : HandlingThrows(i) /\ UNCHANGED <<validVars, mergeVars, previewVars, htmlVars, serviceVars>>
    \/ handleClear /\ UNCHANGED <<validVars, mergeVars, previewVars, htmlVars, serviceVars>>
    \/ \E m \in 1..Len(messages) :
          handleRestoreVersion(m) /\ UNCHANGED <<validVars, mergeVars, previewVars, htmlVars, serviceVars>>
    \/ \E id \in PageIds, c \in EditorContents :
          handleUpdatePage(id, c) /\ UNCHANGED <<validVars, mergeVars, previewVars, htmlVars, serviceVars>>

Spec == Init /\ [][Next]_vars

\* Responses of the runs checked for progress: no page, a valid page, an
\* invalid page.
LiveResponses == {<<>>, <<New(<<"a">>)>>, <<Emptied(<<"b">>)>>}

\* The generation call of an outstanding request settles, one way or another.
Completion ==
    \/ \E i \in 1..Len(inflight), r \in LiveResponses :
          ResolveSend(i, r) /\ UNCHANGED <<validVars, mergeVars, previewVars, htmlVars, serviceVars>>
    \/ \E i \in 1..Len(inflight) : RejectSend(i) /\ UNCHANGED <<validVars, mergeVars, previewVars, htmlVars, serviceVars>>
    \/ \E i \in 1..Len(inflight) : HandlingThrows(i) /\ UNCHANGED <<validVars, mergeVars, previewVars, htmlVars, serviceVars>>

\* The controller under the assumption that every generation call eventually
\* resolves or rejects.
NextLive ==
    \/ \E input \in FormInputs : SubmitForm(input) /\ UNCHANGED <<validVars, mergeVars, previewVars, htmlVars, serviceVars>>
    \/ ClickTemplate /\ UNCHANGED <<validVars, mergeVars, previewVars, htmlVars, serviceVars>>
    \/ \E m \in 1..Len(messages) : \E k \in 1..Len(messages[m].suggestions) :
          ClickChip(m, k) /\ UNCHANGED <<validVars, mergeVars, previewVars, htmlVars, serviceVars>>
    \/ \E i \in 1..Len(inflight), r \in LiveResponses :
          ResolveSend(i, r) /\ UNCHANGED <<validVars, mergeVars, previewVars, htmlVars, serviceVars>>
    \/ \E i \in 1..Len(inflight) : RejectSend(i) /\ UNCHANGED <<validVars, mergeVars, previewVars, htmlVars, serviceVars>>
    \/ \E i \in 1..Len(inflight) : HandlingThrows(i) /\ UNCHANGED <<validVars, mergeVars, previewVars, htmlVars, serviceVars>>
    \/ handleClear /\ UNCHANGED <<validVars, mergeVars, previewVars, htmlVars, serviceVars>>
    \/ \E m \in 1..Len(messages) :
          handleRestoreVersion(m) /\ UNCHANGED <<validVars, mergeVars, previewVars, htmlVars, serviceVars>>
    \/ \E id \in PageIds, c \in EditorContents :
          handleUpdatePage(id, c) /\ UNCHANGED <<validVars, mergeVars, previewVars, htmlVars, serviceVars>>

SpecLive == Init /\ [][NextLive]_vars /\ WF_vars(Completion)

\* The runs that contain no clear and no restoreVersion: sends, their
\* completions and manual edits only.
NextAdditive ==
    \/ \E input \in FormInputs : SubmitForm(input) /\ UNCHANGED <<validVars, mergeVars, previewVars, htmlVars, serviceVars>>
    \/ ClickTemplate /\ UNCHANGED <<validVars, mergeVars, previewVars, htmlVars, serviceVars>>
    \/ \E m \in 1..Len(messages) : \E k \in 1..Len(messages[m].suggestions) :
          ClickChip(m, k) /\ UNCHANGED <<validVars, mergeVars, previewVars, htmlVars, serviceVars>>
    \/ \E i \in 1..Len(inflight), r \in Responses :
          ResolveSend(i, r) /\ UNCHANGED <<validVars, mergeVars, previewVars, htmlVars, serviceVars>>
    \/ \E i \in 1..Len(inflight) : RejectSend(i) /\ UNCHANGED <<validVars, mergeVars, previewVars, htmlVars, serviceVars>>
    \/ \E i \in 1..Len(inflight) : HandlingThrows(i) /\ UNCHANGED <<validVars, mergeVars, previewVars, htmlVars, serviceVars>>
    \/ \E id \in PageIds, c \in EditorContents :
          handleUpdatePage(id, c) /\ UNCHANGED <<validVars, mergeVars, previewVars, htmlVars, serviceVars>>

SpecAdditive == Init /\ [][NextAdditive]_vars

-----------------------------------------------------------------------------
(* The single-file service (src/services/geminiService.ts:138-223).        *)
(* The text of a backend response is the sequence of its pieces: a code    *)
(* fence, a brace, a comma, a member of the JSON object ("files": [...]    *)
(* with its list of file contents, or any other member), or a run of       *)
(* other text.                                                             *)

FENCE_JSON == Seg("fence json")
FENCE      == Seg("fence")
PROSE      == Seg("prose")
LBRACE     == Seg("{")
RBRACE     == Seg("}")
COMMA      == Seg(",")
MEMBER     == Seg("member")
FilesMember(files) == [t |-> "files", files |-> files]

\* str.indexOf(piece) and str.lastIndexOf(piece), counted from 1; 0 for -1.
IndexOf(str, piece) ==
    IF \E i \in 1..Len(str) : str[i] = piece
    THEN CHOOSE i \in 1..Len(str) : str[i] = piece /\ \A j \in 1..(i - 1) : str[j] # piece
    ELSE 0
LastIndexOf(str, piece) ==
    IF \E i \in 1..Len(str) : str[i] = piece
    THEN CHOOSE i \in 1..Len(str) : str[i] = piece /\ \A j \in (i + 1)..Len(str) : str[j] # piece
    ELSE 0

\* cleaned.substring(start, end + 1) for the pieces at start and end;
\* substring swaps its arguments when the first is the larger.
Substring(str, start, end) ==
    IF start <= end THEN SubSeq(str, start, end) ELSE SubSeq(str, end + 1, start - 1)

\* The two replace calls that delete the markdown code fences
\* (geminiService.ts:140).
Unfenced(str) == SelectSeq(str, LAMBDA x : x \notin {FENCE_JSON, FENCE})

\* cleaned.replace(/,(\s*[}\]])/g, '$1')
DropTrailingCommas(str) ==
    LET keep == {i \in 1..Len(str) :
                    ~(str[i] = COMMA /\ i < Len(str) /\ str[i + 1] = RBRACE)}
        RECURSIVE Pick(_)
        Pick(i) == IF i > Len(str) THEN <<>>
                   ELSE IF i \in keep THEN <<str[i]>> \o Pick(i + 1) ELSE Pick(i + 1)
    IN  Pick(1)

\* A variant that answers a text without an object with an empty file list.
cleanJsonString_EmptyFiles(str) ==
    LET cleaned == Unfenced(str)
        start   == IndexOf(cleaned, LBRACE)
        end     == LastIndexOf(cleaned, RBRACE)
    IN  IF start # 0 /\ end # 0
        THEN DropTrailingCommas(Substring(cleaned, start, end))
        ELSE <<LBRACE, FilesMember(<<>>), RBRACE>>

\* cleanJsonString (geminiService.ts:138-156).
cleanJsonString(str) ==
    LET cleaned == Unfenced(str)
        start   == IndexOf(cleaned, LBRACE)
        end     == LastIndexOf(cleaned, RBRACE)
    IN  IF start # 0 /\ end # 0
        THEN DropTrailingCommas(Substring(cleaned, start, end))
        ELSE <<LBRACE, RBRACE>>

\* JSON.parse(str) returns: str is one object, its members separated by commas.
JsonParses(str) ==
    /\ Len(str) >= 2
    /\ str[1] = LBRACE /\ str[Len(str)] = RBRACE
    /\ \/ Len(str) = 2
       \/ /\ Len(str) % 2 = 1
          /\ \A i \in 2..(Len(str) - 1) :
                 IF i % 2 = 0 THEN str[i].t \in {"member", "files"} ELSE str[i] = COMMA

\* result.files is an array: the object has a "files" member.
HasFiles(str) == \E i \in 1..Len(str) : str[i].t = "files"
\* result.files (the last member of that name).
FilesOf(str) ==
    str[CHOOSE i \in 1..Len(str) :
            str[i].t = "files" /\ \A j \in (i + 1)..Len(str) : str[j].t # "files"].files

IndexId == S(<<"i", "n", "d", "e", "x">>)
AppTitle == S(<<"A", "p", "p">>)

\* A variant of the mapping that gives each file an id of its own.
PagesFromFiles_IdPerFile(files) ==
    [i \in 1..Len(files) |->
        Obj(IF i = 1 THEN IndexId ELSE S(<<"f", "2">>), AppTitle, files[i])]

\* result.files.map(f => ({id: 'index', title: 'App', content: f.content}))
\* (geminiService.ts:210-214); a file is given by its content.
PagesFromFiles(files) == [i \in 1..Len(files) |-> Obj(IndexId, AppTitle, files[i])]

\* generateVibe from the response text on (geminiService.ts:199-223): whether
\* the promise resolves, and with which pages.
Rejected == [ok |-> FALSE, pages |-> <<>>]
generateVibe(text) ==
    LET jsonString == cleanJsonString(text) IN
    IF text = <<>> THEN Rejected
    ELSE IF ~JsonParses(jsonString) THEN Rejected
    ELSE IF ~HasFiles(jsonString) THEN Rejected
    ELSE [ok |-> TRUE, pages |-> PagesFromFiles(FilesOf(jsonString))]

(* Specification of the controller on top of the single-file service.      *)

MaxFiles == 2

\* Contents of a returned file: two usable ones and the empty string.
FileContents == {S(<<"n">>), S(<<"m">>), S(<<>>)}
FileLists    == SeqsUpTo(FileContents, MaxFiles)

\* Texts from which no file list can be had.
UnusableCores ==
    {<<>>, <<LBRACE, PROSE>>, <<RBRACE, PROSE, LBRACE>>, <<LBRACE, PROSE, RBRACE>>,
     <<LBRACE, RBRACE>>, <<LBRACE, MEMBER, RBRACE>>, <<LBRACE, MEMBER, COMMA, RBRACE>>}
FileCores == {<<LBRACE, MEMBER, COMMA, FilesMember(f), RBRACE>> : f \in FileLists}

BackendTexts ==
    UnusableCores \cup FileCores
    \cup {<<FENCE_JSON>> \o c \o <<FENCE>> :
             c \in {<<>>, <<LBRACE, PROSE, RBRACE>>, <<LBRACE, MEMBER, RBRACE>>,
                    <<LBRACE, FilesMember(<<S(<<"n">>)>>), COMMA, RBRACE>>}}
    \cup {<<PROSE>> \o c \o <<PROSE>> :
             c \in {<<>>, <<LBRACE, MEMBER, RBRACE>>,
                    <<LBRACE, FilesMember(<<S(<<"m">>)>>), RBRACE>>}}

\* The backend answers an outstanding call with a text: generateVibe resolves
\* or rejects, and the handler goes on accordingly.
DeliverReply(i, text) ==
    LET outcome == generateVibe(text) IN
    /\ backendText' = text
    /\ IF outcome.ok THEN ResolveSend(i, outcome.pages) ELSE RejectSend(i)

NextSingleFile ==
    \/ \E input \in FormInputs : SubmitForm(input) /\ UNCHANGED <<validVars, mergeVars, previewVars, htmlVars, serviceVars>>
    \/ ClickTemplate /\ UNCHANGED <<validVars, mergeVars, previewVars, htmlVars, serviceVars>>
    \/ \E m \in 1..Len(messages) : \E k \in 1..Len(messages[m].suggestions) :
          ClickChip(m, k) /\ UNCHANGED <<validVars, mergeVars, previewVars, htmlVars, serviceVars>>
    \/ \E i \in 1..Len(inflight), text \in BackendTexts :
          DeliverReply(i, text) /\ UNCHANGED <<validVars, mergeVars, previewVars, htmlVars>>
    \/ handleClear /\ UNCHANGED <<validVars, mergeVars, previewVars, htmlVars, serviceVars>>
    \/ \E m \in 1..Len(messages) :
          handleRestoreVersion(m) /\ UNCHANGED <<validVars, mergeVars, previewVars, htmlVars, serviceVars>>
    \/ \E c \in EditorContents :
          handleUpdatePage(IndexId, c) /\ UNCHANGED <<validVars, mergeVars, previewVars, htmlVars, serviceVars>>

SpecSingleFile == Init /\ [][NextSingleFile]_vars

-----------------------------------------------------------------------------
(* The PreviewArea component (PreviewArea.tsx:11-59, 323): the pages prop, *)
(* the active page selection and the cross-frame message listener.  The    *)
(* parent may hand it any page set the controller can hold.                *)

\* Values of navTokenRef.current (PreviewArea.tsx:23).
SessionTokens == {S(<<"t1">>), S(<<"t2">>)}
NavType       == S(<<"NAVIGATE_TO_PAGE">>)

\* Message events: data that is no object, and objects whose fields are drawn
\* from present, absent and wrongly typed values.
MessageEvents ==
    {MsgNonObj(k) : k \in {"null", "undefined", "string"}}
    \cup {MsgObj(ty, tk, id) :
            ty \in {NavType, S(<<"OTHER">>), Undefined},
            tk \in SessionTokens \cup {Undefined},
            id \in PageIds \cup {S(<<"c">>), S(<<>>), Number, Undefined}}

\* Page sets the pages prop may hold: null, or pages with distinct ids.
PreviewPageSets ==
    {NullPages} \cup
    {SomePages(l) : l \in {<<>>, <<Old(<<"a">>)>>, <<Old(<<"b">>)>>,
                           <<Old(<<"a">>), Old(<<"b">>)>>,
                           <<Old(<<"b">>), Old(<<"a">>)>>,
                           <<Old(<<"a">>), Emptied(<<"b">>)>>}}

\* !v for the values an id or a pageId may take.
Falsy(v) ==
    \/ v.kind \in {"null", "undefined"}
    \/ v.kind = "string" /\ StrLength(v) = 0

\* pages.find(p => p.id === id) finds a page.
FindsPage(pages, id) == \E i \in 1..Len(pages) : pages[i].id = id

\* event.data || {}
DataOrEmpty(eventData) ==
    IF eventData.kind \in {"null", "undefined"} THEN MsgObj(Undefined, Undefined, Undefined)
    ELSE eventData

\* data.f: a property of a primitive reads as undefined, of null it throws.
MsgProp(data, f) ==
    IF data.kind \in {"null", "undefined"} THEN TypeError
    ELSE IF data.kind = "object" THEN data[f]
    ELSE Undefined

\* A variant of the token test that accepts any token that is a string.
TokenMatches_AnyString(data) == MsgProp(data, "token").kind = "string"

\* data?.token !== navTokenRef.current is false (PreviewArea.tsx:47).
TokenMatches(data) == MsgProp(data, "token") = navToken

\* A variant of the lookup that trusts the message's pageId.
NavigationTarget_Unchecked(data) ==
    IF Falsy(MsgProp(data, "pageId")) THEN activePageId ELSE MsgProp(data, "pageId")

\* The page the listener selects once type and token passed (PreviewArea.tsx:49-54).
NavigationTarget(data) ==
    IF Falsy(MsgProp(data, "pageId")) THEN activePageId
    ELSE IF ~pvPages.null /\ FindsPage(pvPages.list, MsgProp(data, "pageId"))
         THEN MsgProp(data, "pageId")
         ELSE activePageId

\* handleMessage (PreviewArea.tsx:44-55): the new activePageId, and whether a
\* property read threw.
HandleMessageResult(eventData) ==
    LET data == DataOrEmpty(eventData) IN
    IF MsgProp(data, "type") = TypeError THEN [threw |-> TRUE, active |-> activePageId]
    ELSE IF MsgProp(data, "type") # NavType THEN [threw |-> FALSE, active |-> activePageId]
    ELSE IF ~TokenMatches(data) THEN [threw |-> FALSE, active |-> activePageId]
    ELSE [threw |-> FALSE, active |-> NavigationTarget(data)]

PvEvent(op, data, threw) ==
    [op |-> op, data |-> data, threw |-> threw,
     preActive |-> activePageId, prePages |-> pvPages]

handleMessage(eventData) ==
    /\ activePageId' = HandleMessageResult(eventData).active
    /\ pvLast' = PvEvent("message", eventData, HandleMessageResult(eventData).threw)
    /\ UNCHANGED <<pvPages, navToken>>

\* A variant of the effect that selects a page only when none is selected.
SyncedSelection_OnlyWhenUnset(pages) ==
    IF ~pages.null /\ Len(pages.list) > 0 /\ Falsy(activePageId)
    THEN pages.list[1].id
    ELSE activePageId

\* The selection after the sync effect ran on a new pages prop (PreviewArea.tsx:26-32).
SyncedSelection(pages) ==
    IF ~pages.null /\ Len(pages.list) > 0
       /\ (Falsy(activePageId) \/ ~FindsPage(pages.list, activePageId))
    THEN pages.list[1].id
    ELSE activePageId

\* The parent renders the component with another pages prop; the effect that
\* depends on [pages] runs.
PagesChange(pages) ==
    /\ pages # pvPages
    /\ pvPages' = pages
    /\ activePageId' = SyncedSelection(pages)
    /\ pvLast' = PvEvent("pages", MsgNonObj("undefined"), FALSE)
    /\ UNCHANGED navToken

\* onClick of a page tab (PreviewArea.tsx:323).
SelectTab(i) ==
    /\ ~pvPages.null /\ i \in 1..Len(pvPages.list)
    /\ activePageId' = pvPages.list[i].id
    /\ pvLast' = PvEvent("tab", MsgNonObj("undefined"), FALSE)
    /\ UNCHANGED <<pvPages, navToken>>

InitPreview ==
    /\ AppInit /\ ValidIdle /\ MergeIdle /\ HtmlIdle /\ ServiceIdle
    /\ pvPages = NullPages
    /\ activePageId = JsNull
    /\ navToken \in SessionTokens
    /\ pvLast = [op |-> "idle", data |-> MsgNonObj("undefined"), threw |-> FALSE,
                 preActive |-> JsNull, prePages |-> NullPages]

NextPreview ==
    \/ \E e \in MessageEvents : handleMessage(e) /\ UNCHANGED <<appVars, validVars, mergeVars, htmlVars, serviceVars>>
    \/ \E ps \in PreviewPageSets : PagesChange(ps) /\ UNCHANGED <<appVars, validVars, mergeVars, htmlVars, serviceVars>>
    \/ \E i \in 1..Len(pvPages.list) : SelectTab(i) /\ UNCHANGED <<appVars, validVars, mergeVars, htmlVars, serviceVars>>

SpecPreview == InitPreview /\ [][NextPreview]_vars

-----------------------------------------------------------------------------
(* processHtml (PreviewArea.tsx:119-183).                                  *)
(* An HTML string is the sequence of its pieces.  A piece is one of the    *)
(* literal substrings the function searches for or inserts, an <img> tag,  *)
(* or a run of other text; no searched substring straddles two pieces, so  *)
(* includes() and replace() on the string are membership and replacement   *)
(* of the first occurrence on the sequence.                                *)

Tk(t) == [t |-> t, src |-> "", alt |-> "", desc |-> ""]
\* <img ... src="..." alt="...">; alt is "" when the tag has no alt text.  The
\* src is one of
\*   "relative"  a relative path such as images/cat.png
\*   "httpdir"   a relative path whose first characters are http, such as
\*               http-assets/cat.png
\*   "http"      an absolute URL, https://example.com/cat.png
\*   "data"      a data: URI
\*   "generated" the URL https://image.pollinations.ai/prompt/... of a rewrite
Img(src, alt) == [t |-> "img", src |-> src, alt |-> alt, desc |-> ""]

TEXT       == Tk("text")
DOCTYPE    == Tk("<!DOCTYPE html>")
HEAD       == Tk("<head>")
BODY_CLOSE == Tk("</body>")
CSP        == Tk("cspMetaTag")
NAVSCRIPT  == Tk("navScript")

Includes(html, piece) == \E i \in 1..Len(html) : html[i] = piece

\* html.replace(piece, replacement): the first occurrence only.
ReplaceFirst(html, piece, replacement) ==
    IF ~Includes(html, piece) THEN html
    ELSE LET i == CHOOSE k \in 1..Len(html) :
                      html[k] = piece /\ \A j \in 1..(k - 1) : html[j] # piece
         IN  SubSeq(html, 1, i - 1) \o replacement \o SubSeq(html, i + 1, Len(html))

\* src.trim().startsWith('http')
StartsWithHttp(src) == src \in {"http", "httpdir", "generated"}
\* src.trim().startsWith('data:')
StartsWithData(src) == src = "data"

\* The callback returns the match as it is (PreviewArea.tsx:126).
KeepsSrc(src) == StartsWithHttp(src) \/ StartsWithData(src)

\* The replace callback of the <img> pattern (PreviewArea.tsx:125-131).
RewriteImg(piece) ==
    IF piece.t # "img" \/ KeepsSrc(piece.src) THEN piece
    ELSE [piece EXCEPT !.src = "generated",
                       !.desc = IF piece.alt # "" THEN piece.alt ELSE "abstract design"]

RewriteImages(html) == [i \in 1..Len(html) |-> RewriteImg(html[i])]

\* A variant that puts the script in the place of the closing body tag.
InsertNavScript_OverBodyClose(html) ==
    IF Includes(html, BODY_CLOSE)
    THEN ReplaceFirst(html, BODY_CLOSE, <<NAVSCRIPT>>)
    ELSE Append(html, NAVSCRIPT)

\* PreviewArea.tsx:151-155.
InsertNavScript(html) ==
    IF Includes(html, BODY_CLOSE)
    THEN ReplaceFirst(html, BODY_CLOSE, <<NAVSCRIPT, BODY_CLOSE>>)
    ELSE Append(html, NAVSCRIPT)

\* The shell of PreviewArea.tsx:158-176 around the processed content.
ShellHead ==
    <<DOCTYPE, Tk("<html lang>"), HEAD, Tk("shell meta"), CSP,
      Tk("shell scripts and style"), Tk("</head>"), Tk("<body class>")>>
ShellTail == <<BODY_CLOSE, Tk("</html>")>>
Shell(content) == ShellHead \o content \o ShellTail

\* PreviewArea.tsx:157-182.
CompleteDocument(html) ==
    IF ~Includes(html, DOCTYPE) THEN Shell(html)
    ELSE IF Includes(html, HEAD) THEN ReplaceFirst(html, HEAD, <<HEAD, CSP>>)
    ELSE html

processHtml(html) ==
    IF html = <<>> THEN <<>>
    ELSE CompleteDocument(InsertNavScript(RewriteImages(html)))

(* Specification of the processHtml harness: process an input, then        *)
(* process the output again.                                               *)

MaxHtmlLen == 3

InputPieces ==
    {TEXT, DOCTYPE, HEAD, BODY_CLOSE,
     Img("relative", "cat"), Img("relative", ""), Img("http", ""),
     Img("data", "cat"), Img("httpdir", "cat")}

InitHtml ==
    /\ AppInit /\ ValidIdle /\ MergeIdle /\ PreviewIdle /\ ServiceIdle
    /\ hIn \in SeqsUpTo(InputPieces, MaxHtmlLen)
    /\ hOnce = <<>> /\ hTwice = <<>>
    /\ hpc = "start"

ProcessOnce ==
    /\ hpc = "start"
    /\ hOnce' = processHtml(hIn)
    /\ hpc' = "once"
    /\ UNCHANGED <<hIn, hTwice, appVars, validVars, mergeVars, previewVars, serviceVars>>

ProcessAgain ==
    /\ hpc = "once"
    /\ hTwice' = processHtml(hOnce)
    /\ hpc' = "twice"
    /\ UNCHANGED <<hIn, hOnce, appVars, validVars, mergeVars, previewVars, serviceVars>>

NextHtml == ProcessOnce \/ ProcessAgain

SpecHtml == InitHtml /\ [][NextHtml]_vars

-----------------------------------------------------------------------------
(* Properties of isValidPage, checked under SpecValid.                     *)

\* The declarative reading of a usable page: every condition stated on its own.
WellFormedPage(c) ==
    /\ c.kind = "object"
    /\ c.id.kind = "string"
    /\ Len(c.id.text) + c.id.pad # 0
    /\ \A i \in 1..Len(c.id.text) : c.id.text[i] \notin Whitespace
    /\ c.title.kind = "string"
    /\ c.content.kind = "string"
    /\ Len(c.content.text) + c.content.pad \in 1..(MaxContentLen - 1)

\* C1: isValidPage returns true exactly for a non-null object with a non-empty,
\* whitespace-free string id, a string title and a string content of length
\* 1..599,999; for every other candidate it returns false, and it never throws.
C1_IsValidPageIff ==
    verdict # "none" =>
        /\ verdict \in {"true", "false"}
        /\ (verdict = "true") <=> WellFormedPage(cand)

\* C1 witness: a candidate that is well formed except that its content has
\* exactly 600,000 characters has been rejected.
C1_Witness ==
    /\ verdict = "false"
    /\ cand.kind = "object"
    /\ cand.id = S(<<"a">>) /\ cand.title = S(<<"T">>)
    /\ cand.content.kind = "string"
    /\ StrLength(cand.content) = MaxContentLen

-----------------------------------------------------------------------------
(* Properties of mergePages, checked under SpecMerge.                      *)

Ids(pages) == [i \in 1..Len(pages) |-> pages[i].id]
IdSet(pages) == {pages[i].id : i \in 1..Len(pages)}
UniqueIds(pages) ==
    \A i, j \in 1..Len(pages) : pages[i].id = pages[j].id => i = j

\* s without the later occurrences of each element.
RECURSIVE FirstOccurrences(_)
FirstOccurrences(s) ==
    IF s = <<>> THEN <<>>
    ELSE LET front == FirstOccurrences(SubSeq(s, 1, Len(s) - 1))
             x     == s[Len(s)]
         IN  IF \E i \in 1..Len(front) : front[i] = x THEN front ELSE Append(front, x)

\* incoming[j] is valid and no later valid entry of incoming has its id.
LastValidFor(incoming, j) ==
    /\ isValidPage(incoming[j])
    /\ \A k \in (j + 1)..Len(incoming) :
           isValidPage(incoming[k]) => incoming[k].id # incoming[j].id

\* result holds a page with the id, title and content of page p.
Carries(result, p) ==
    \E k \in 1..Len(result) :
        /\ result[k].id = p.id
        /\ result[k].title = p.title
        /\ result[k].content = p.content

\* C2 as stated: with unique ids in current, the result has every id of current,
\* and for EVERY valid incoming page its id is in the result with that page's
\* title and content.
C2_AsStated ==
    (mpc # "start" /\ UniqueIds(mCurrent)) =>
        /\ IdSet(mCurrent) \subseteq IdSet(mOnce)
        /\ \A j \in 1..Len(mIncoming) :
               isValidPage(mIncoming[j]) => Carries(mOnce, mIncoming[j])

\* C2 (amended): with unique ids in current, the result has every id of
\* current, and the id of every valid incoming page is in the result with the
\* title and content of the LAST valid incoming page that has that id.
C2_MergeKeepsAndCarries ==
    (mpc # "start" /\ UniqueIds(mCurrent)) =>
        /\ IdSet(mCurrent) \subseteq IdSet(mOnce)
        /\ \A j \in 1..Len(mIncoming) :
               isValidPage(mIncoming[j]) => mIncoming[j].id \in IdSet(mOnce)
        /\ \A j \in 1..Len(mIncoming) :
               LastValidFor(mIncoming, j) => Carries(mOnce, mIncoming[j])

\* C2 witness: a merge onto two current pages in which a valid incoming page
\* replaced one of them and an invalid one was skipped.
C2_Witness ==
    /\ mpc = "merged"
    /\ Len(mCurrent) = 2 /\ UniqueIds(mCurrent)
    /\ \E j \in 1..Len(mIncoming) :
           isValidPage(mIncoming[j]) /\ mIncoming[j].id \in IdSet(mCurrent)
    /\ \E j \in 1..Len(mIncoming) : ~isValidPage(mIncoming[j])
    /\ \E k \in 1..Len(mOnce) : mOnce[k] = New(<<"a">>)

\* C3: merging the same incoming list a second time changes nothing:
\* mergePages(mergePages(A, B), B) = mergePages(A, B) as ordered lists.
C3_MergeIdempotent ==
    mpc = "remerged" => mTwice = mOnce

\* C3 witness: the second merge ran on a first merge that had both updated a
\* page and appended one.
C3_Witness ==
    /\ mpc = "remerged"
    /\ Len(mOnce) > Len(mCurrent) /\ Len(mCurrent) > 0
    /\ \E i \in 1..Len(mCurrent) : mOnce[i] # mCurrent[i]

\* C4: the ids of the result are the ids of current in their order (first
\* occurrences), followed by the valid incoming ids that current lacks, in the
\* order of their first occurrence in incoming.
C4_MergeOrder ==
    mpc # "start" =>
        Ids(mOnce) = FirstOccurrences(Ids(mCurrent) \o Ids(FilterValid(mIncoming)))

\* C4 witness: the first of two current pages was updated and kept the first
\* place, and two new ids were appended after the current ones.
C4_Witness ==
    /\ mpc = "merged"
    /\ Len(mCurrent) = 2 /\ UniqueIds(mCurrent)
    /\ Len(mOnce) = 4
    /\ mOnce[1] # mCurrent[1] /\ mOnce[1].id = mCurrent[1].id
    /\ mOnce[2] = mCurrent[2]

\* C5: when several valid incoming pages share an id, the result holds exactly
\* one page with that id, and it is the last of them.
C5_LastWriteWins ==
    mpc # "start" =>
        \A i, j \in 1..Len(mIncoming) :
            ( /\ i < j
              /\ isValidPage(mIncoming[i])
              /\ mIncoming[i].id = mIncoming[j].id
              /\ LastValidFor(mIncoming, j) ) =>
                /\ Cardinality({k \in 1..Len(mOnce) : mOnce[k].id = mIncoming[j].id}) = 1
                /\ \A k \in 1..Len(mOnce) :
                       mOnce[k].id = mIncoming[j].id => mOnce[k] = mIncoming[j]

\* C5 witness: incoming held two valid pages with one id and different content,
\* and the merge has run.
C5_Witness ==
    /\ mpc = "merged"
    /\ \E i, j \in 1..Len(mIncoming) :
           /\ i < j
           /\ isValidPage(mIncoming[i]) /\ isValidPage(mIncoming[j])
           /\ mIncoming[i].id = mIncoming[j].id
           /\ mIncoming[i].content # mIncoming[j].content

-----------------------------------------------------------------------------
(* Properties of the App component, checked under Spec (C7: SpecAdditive). *)

CurrentPages == OrEmpty(latestPages)
LastMessage  == messages[Len(messages)]

\* C6: in every reachable state the current page set has no two pages with the
\* same id, and neither has any snapshot stored in a model message.
C6_UniquePageIds ==
    /\ UniqueIds(CurrentPages)
    /\ \A m \in 1..Len(messages) : UniqueIds(OrEmpty(messages[m].pages))

\* C6 witness: a response that named one id twice was committed onto a page
\* set that already held that id, and its snapshot is in the transcript.
C6_Witness ==
    /\ last.op = "resolve"
    /\ Len(last.resp) = 2
    /\ isValidPage(last.resp[1]) /\ isValidPage(last.resp[2])
    /\ last.resp[1].id = last.resp[2].id
    /\ last.resp[1].id \in IdSet(OrEmpty(last.captured))
    /\ LastMessage.pages = latestPages

\* C7 as stated: in a run without clear and restoreVersion no handler removes a
\* page id, and a completion (success or failure) leaves every page whose id the
\* response does not name with its title and content.
C7_AsStated ==
    last.op # "init" =>
        /\ IdSet(OrEmpty(last.prePages)) \subseteq IdSet(CurrentPages)
        /\ last.op \in {"resolve", "reject"} =>
               \A i \in 1..Len(OrEmpty(last.prePages)) :
                   OrEmpty(last.prePages)[i].id \notin IdSet(last.resp) =>
                       Carries(CurrentPages, OrEmpty(last.prePages)[i])

\* C8: after a failed generation call is handled the page set is the one just
\* before, the transcript has grown by exactly the apology message, which holds
\* no snapshot, and the error banner is set.
C8_FailureKeepsPages ==
    last.op = "reject" =>
        /\ latestPages = last.prePages
        /\ messages = Append(last.preMessages, ApologyMessage)
        /\ LastMessage.role = "model" /\ LastMessage.content = Apology
        /\ LastMessage.pages.null
        /\ error = ErrorText

\* C8 witness: a call failed after the page set had been changed while it was
\* in flight, and the changed page set is still the current one.
C8_Witness ==
    /\ last.op = "reject"
    /\ ~latestPages.null
    /\ latestPages # last.captured
    /\ last.preError = NoError

\* C9 as stated: a response is merged onto the page set that exists when it is
\* committed: the committed page set is mergePages(page set just before the
\* commit, valid response pages).
C9_AsStated ==
    last.op = "resolve" =>
        CurrentPages = mergePages(OrEmpty(last.prePages), FilterValid(last.resp))

\* C10 as stated: right after a successful commit the page set is the merge of
\* the page set just before it with the valid response pages, and the last
\* transcript entry is a model message whose snapshot is that merged set.
C10_AsStated ==
    last.op = "resolve" =>
        /\ latestPages =
              SomePages(mergePages(OrEmpty(last.prePages), FilterValid(last.resp)))
        /\ LastMessage.role = "model"
        /\ LastMessage.pages =
              SomePages(mergePages(OrEmpty(last.prePages), FilterValid(last.resp)))

\* C11: at most one generation request is outstanding in every reachable state:
\* no entry point of the chat UI (form, starter template, suggestion chip)
\* starts a send while an earlier one has not completed.
C11_OneRequestInFlight ==
    /\ Len(inflight) <= 1
    /\ last.op = "send" => last.preInflight = <<>>

\* C11 witness: the project was cleared while a request was in flight, so the
\* starter templates are on screen again and the request is still outstanding.
C11_Witness ==
    /\ last.op = "clear"
    /\ Len(messages) = 0
    /\ Len(inflight) = 1
    /\ last.preMessages # <<>>

\* C12: restoreVersion(snapshot) makes the current page set exactly the
\* snapshot (ids, order, titles, contents), so pages added or changed since are
\* gone, and it starts no generation call.
C12_RestoreIsExact ==
    last.op = "restore" =>
        /\ ~latestPages.null
        /\ latestPages.list = last.captured.list
        /\ inflight = last.preInflight
        /\ isLoading = last.preLoading

\* C12 witness: a snapshot was restored over a page set that held a page the
\* snapshot lacks, and that page is gone.
C12_Witness ==
    /\ last.op = "restore"
    /\ \E i \in 1..Len(OrEmpty(last.prePages)) :
           OrEmpty(last.prePages)[i].id \notin IdSet(CurrentPages)
    /\ Len(CurrentPages) > 0

\* C13: updatePageContent(pageId, newContent) keeps the number, order, ids and
\* titles of the pages, sets the content of the page with that id and of no
\* other page, and leaves transcript, loading flag, error banner and requests
\* in flight as they were.
C13_UpdateFrame ==
    last.op = "update" =>
        /\ latestPages.null = last.prePages.null
        /\ Len(CurrentPages) = Len(OrEmpty(last.prePages))
        /\ \A i \in 1..Len(CurrentPages) :
               LET old == OrEmpty(last.prePages)[i]
                   new == CurrentPages[i]
               IN  /\ new.id = old.id /\ new.title = old.title /\ new.kind = old.kind
                   /\ old.id = last.pageId => new.content = last.newContent
                   /\ old.id # last.pageId => new.content = old.content
        /\ messages = last.preMessages
        /\ isLoading = last.preLoading
        /\ error = last.preError
        /\ inflight = last.preInflight

\* C13 witness: an edit was applied to one page of a two-page set: that page's
\* content changed and the other page is as before.
C13_Witness ==
    /\ last.op = "update"
    /\ Len(CurrentPages) = 2
    /\ \E i, j \in 1..2 :
           /\ CurrentPages[i] # last.prePages.list[i]
           /\ CurrentPages[j] = last.prePages.list[j]

\* C14: right after clear(), also when a request is in flight, there are no
\* pages, the transcript is empty and no error banner is shown.
C14_ClearResets ==
    last.op = "clear" =>
        /\ latestPages = NullPages
        /\ messages = <<>>
        /\ error = NoError

\* C14 witness: clear ran on a project with pages and a transcript while a
\* request was in flight.
C14_Witness ==
    /\ last.op = "clear"
    /\ ~last.prePages.null /\ Len(last.prePages.list) > 0
    /\ Len(last.preMessages) > 2
    /\ Len(inflight) = 1 /\ isLoading

\* s is an initial segment of t.
IsPrefix(s, t) == Len(s) <= Len(t) /\ SubSeq(t, 1, Len(s)) = s

\* C20: every handler but clear leaves the transcript it found as an initial
\* segment of the new one (entries are only appended, never removed, reordered
\* or changed); restoreVersion and updatePageContent leave it as it is.
C20_TranscriptAppendOnly ==
    /\ last.op \in {"send", "resolve", "reject", "restore", "update"} =>
           IsPrefix(last.preMessages, messages)
    /\ last.op \in {"restore", "update"} => messages = last.preMessages

\* C20 witness: the snapshot of an earlier turn was restored with a later turn
\* in the transcript, and all four entries are still there.
C20_Witness ==
    /\ last.op = "restore"
    /\ Len(messages) = 4
    /\ last.captured = messages[2].pages
    /\ messages[4].pages # messages[2].pages
    /\ ~messages[4].pages.null

\* C21: the snapshot of a model message is the page set committed with it, and
\* no later send, completion, restoreVersion or updatePageContent changes the
\* snapshot of any message already in the transcript; restoring a snapshot
\* makes the page set equal to it and leaves it in the transcript as it was.
C21_SnapshotsImmutable ==
    /\ last.op \in {"send", "resolve", "reject", "restore", "update"} =>
           \A m \in 1..Len(last.preMessages) :
               /\ m <= Len(messages)
               /\ messages[m].pages = last.preMessages[m].pages
    /\ last.op = "resolve" => LastMessage.pages = latestPages
    /\ last.op = "restore" =>
           \E m \in 1..Len(messages) :
               /\ messages[m].pages = last.captured
               /\ latestPages = messages[m].pages

\* C21 witness: the page set was the very snapshot of a stored turn when an
\* edit changed one of its pages; the snapshot still holds the old content.
C21_Witness ==
    /\ last.op = "update"
    /\ ~last.prePages.null
    /\ latestPages # last.prePages
    /\ \E m \in 1..Len(messages) : messages[m].pages = last.prePages

\* C22 as stated: a response holding an invalid page is committed on the success
\* path: a model message is appended, the error banner is not touched, every
\* valid page of the response is in the page set (the last one per id), no
\* other id is added, and when no page of the response is valid the page set
\* is the one just before the commit.
C22_AsStated ==
    (last.op = "resolve" /\ \E j \in 1..Len(last.resp) : ~isValidPage(last.resp[j])) =>
        /\ Len(messages) = Len(last.preMessages) + 1
        /\ LastMessage.role = "model" /\ LastMessage.type = "code_preview"
        /\ error = last.preError
        /\ \A j \in 1..Len(last.resp) :
               LastValidFor(last.resp, j) => Carries(CurrentPages, last.resp[j])
        /\ FilterValid(last.resp) = <<>> => CurrentPages = OrEmpty(last.prePages)

\* C23 as stated: when a send completes, by success or by failure, the
\* transcript holds the user message with its prompt and ends with the model
\* message produced for it; and in every reachable state every model message
\* comes right after a user message.
C23_AsStated ==
    /\ last.op \in {"resolve", "reject"} =>
           /\ LastMessage.role = "model"
           /\ \E m \in 1..(Len(messages) - 1) :
                  \E i \in 1..Len(last.preInflight) :
                      /\ Len(inflight) = Len(last.preInflight) - 1
                      /\ inflight = RemoveAt(last.preInflight, i)
                      /\ messages[m] = UserMessage(last.preInflight[i].prompt)
    /\ \A m \in 1..Len(messages) :
           messages[m].role = "model" => (m > 1 /\ messages[m - 1].role = "user")

\* C24 as stated: in every reachable state isValidPage holds for every page of
\* the current page set.
C24_AsStated ==
    \A i \in 1..Len(CurrentPages) : isValidPage(CurrentPages[i])

\* C25: the loading flag is true exactly while a request is outstanding: a send
\* sets it, it stays set until the request completes, the completion clears it,
\* and restoreVersion, updatePageContent and clear leave it as it was.
C25_LoadingIffOutstanding ==
    /\ isLoading <=> Len(inflight) > 0
    /\ last.op = "send" => isLoading
    /\ last.op \in {"resolve", "reject", "throw"} => (last.preLoading /\ ~isLoading)
    /\ last.op \in {"restore", "update", "clear"} => isLoading = last.preLoading

\* C25 witness: an earlier version was restored while a request was in flight,
\* and the flag is still set.
C25_Witness ==
    /\ last.op = "restore"
    /\ isLoading /\ last.preLoading
    /\ Len(inflight) = 1

\* A completion appended exactly one message to the transcript it found, a
\* model message.
CompletionAppendsOne ==
    last.op \in {"resolve", "reject", "throw"} =>
        /\ Len(messages) = Len(last.preMessages) + 1
        /\ SubSeq(messages, 1, Len(last.preMessages)) = last.preMessages
        /\ LastMessage.role = "model"
        /\ last.op \in {"reject", "throw"} => LastMessage = ApologyMessage

\* C26: if every generation call settles, every send leaves the loading state:
\* loading always leads to not loading, and each completion (success, failure,
\* or a throw while the response is handled) appends exactly one model message.
C26_SendCompletes ==
    /\ [](CompletionAppendsOne)
    /\ (isLoading ~> ~isLoading)

\* C26 witness: the handling of a response threw, the apology is the last
\* message and the flag is cleared.
C26_Witness ==
    /\ last.op = "throw"
    /\ last.preLoading /\ ~isLoading
    /\ LastMessage = ApologyMessage
    /\ Len(messages) = Len(last.preMessages) + 1

-----------------------------------------------------------------------------
(* Properties of the message listener, checked under SpecPreview.          *)

\* C15: a message whose token differs from the component's navigation token
\* leaves the active page id as it was, whatever its type and pageId.
C15_WrongTokenIgnored ==
    (pvLast.op = "message" /\ pvLast.data.token # navToken) =>
        activePageId = pvLast.preActive

\* C15 witness: a NAVIGATE_TO_PAGE message carrying another session's token and
\* the id of a known page other than the active one was handled.
C15_Witness ==
    /\ pvLast.op = "message"
    /\ pvLast.data.type = NavType
    /\ pvLast.data.token \in SessionTokens /\ pvLast.data.token # navToken
    /\ FindsPage(pvPages.list, pvLast.data.pageId)
    /\ pvLast.data.pageId # pvLast.preActive

\* C16: the listener sets the active page id to the message's pageId when the
\* message is an object of type NAVIGATE_TO_PAGE with the session token and the
\* id of a page of the current page set; every other message leaves the active
\* page id unchanged; and no message makes the listener throw.
C16_NavigateOnlyWhenAuthentic ==
    pvLast.op = "message" =>
        /\ ~pvLast.threw
        /\ IF /\ pvLast.data.kind = "object"
              /\ pvLast.data.type = NavType
              /\ pvLast.data.token = navToken
              /\ \E i \in 1..Len(pvPages.list) : pvPages.list[i].id = pvLast.data.pageId
           THEN activePageId = pvLast.data.pageId
           ELSE activePageId = pvLast.preActive

\* C16 witness: an authentic message naming the second page moved the selection
\* from the first page to it.
C16_Witness ==
    /\ pvLast.op = "message"
    /\ Len(pvPages.list) = 2
    /\ pvLast.preActive = pvPages.list[1].id
    /\ activePageId = pvPages.list[2].id
    /\ pvLast.data.token = navToken

\* C30: whenever the page set is not empty, the active page id is the id of one
\* of its pages; a page-set update keeps the selection when the selected id is
\* in the new page set and selects the first page when it is not.
C30_ActivePageInSet ==
    /\ (~pvPages.null /\ Len(pvPages.list) > 0) => FindsPage(pvPages.list, activePageId)
    /\ (pvLast.op = "pages" /\ ~pvPages.null /\ Len(pvPages.list) > 0) =>
           IF \E i \in 1..Len(pvPages.list) : pvPages.list[i].id = pvLast.preActive
           THEN activePageId = pvLast.preActive
           ELSE activePageId = pvPages.list[1].id

\* C30 witness: the page set was replaced by one that lacks the selected page,
\* and its first page is now the active one.
C30_Witness ==
    /\ pvLast.op = "pages"
    /\ pvLast.preActive.kind = "string"
    /\ ~pvLast.prePages.null /\ FindsPage(pvLast.prePages.list, pvLast.preActive)
    /\ ~pvPages.null /\ Len(pvPages.list) > 0
    /\ ~FindsPage(pvPages.list, pvLast.preActive)
    /\ activePageId = pvPages.list[1].id

-----------------------------------------------------------------------------
(* Properties of processHtml, checked under SpecHtml.                      *)

Count(html, piece) == Cardinality({i \in 1..Len(html) : html[i] = piece})

\* C17 as stated: for an input with a doctype and a <head>, the output holds
\* exactly one CSP meta tag, and so does the output of processing that output
\* once more.
C17_AsStated ==
    (Includes(hIn, DOCTYPE) /\ Includes(hIn, HEAD)) =>
        /\ hpc \in {"once", "twice"} => Count(hOnce, CSP) = 1
        /\ hpc = "twice" => Count(hTwice, CSP) = 1

\* C18 as stated: for a non-empty input that has a doctype, the output holds the
\* CSP meta tag, right after the opening of its head.
C18_AsStated ==
    (hpc \in {"once", "twice"} /\ hIn # <<>> /\ Includes(hIn, DOCTYPE)) =>
        \E i \in 1..(Len(hOnce) - 1) : hOnce[i] = HEAD /\ hOnce[i + 1] = CSP

\* Two pieces are the same apart from a rewritten image source.
SameButImgSrc(a, b) ==
    \/ a = b
    \/ a.t = "img" /\ b.t = "img" /\ a.alt = b.alt

\* C19: for a non-empty input without a doctype the output is one shell, which
\* opens with a doctype, around a body that is the input piece for piece,
\* except that image sources may be rewritten and one navigation script is
\* added.
C19_WrapsVerbatim ==
    (hpc \in {"once", "twice"} /\ hIn # <<>> /\ ~Includes(hIn, DOCTYPE)) =>
        LET n    == Len(hOnce)
            body == SubSeq(hOnce, Len(ShellHead) + 1, n - Len(ShellTail))
            rest == SelectSeq(body, LAMBDA x : x # NAVSCRIPT)
        IN  /\ n >= Len(ShellHead) + Len(ShellTail)
            /\ SubSeq(hOnce, 1, Len(ShellHead)) = ShellHead
            /\ SubSeq(hOnce, n - Len(ShellTail) + 1, n) = ShellTail
            /\ hOnce[1] = DOCTYPE /\ Count(hOnce, DOCTYPE) = 1
            /\ Count(body, NAVSCRIPT) = 1
            /\ Len(rest) = Len(hIn)
            /\ \A i \in 1..Len(hIn) : SameButImgSrc(hIn[i], rest[i])

\* C19 witness: a fragment with a relative image and a closing body tag, and no
\* doctype, was wrapped.
C19_Witness ==
    /\ hpc = "once"
    /\ ~Includes(hIn, DOCTYPE)
    /\ Includes(hIn, BODY_CLOSE)
    /\ Includes(hIn, Img("relative", "cat"))
    /\ Includes(hOnce, [Img("relative", "cat") EXCEPT !.src = "generated", !.desc = "cat"])

\* The <img> pieces of a document, in order.
Imgs(html) == SelectSeq(html, LAMBDA x : x.t = "img")

\* What the claim calls an absolute URL and a data URI.
IsAbsoluteUrl(src) == src \in {"http", "generated"}
IsDataUri(src)     == src = "data"

\* C27 as stated: an <img> whose src is neither an absolute URL nor a data URI
\* comes out with the generated-image URL built from its alt text, or from
\* 'abstract design' when it has none; every other <img> comes out unchanged.
C27_AsStated ==
    hpc \in {"once", "twice"} =>
        /\ Len(Imgs(hOnce)) = Len(Imgs(hIn))
        /\ \A i \in 1..Len(Imgs(hIn)) :
               LET in  == Imgs(hIn)[i]
                   out == Imgs(hOnce)[i]
               IN  IF ~IsAbsoluteUrl(in.src) /\ ~IsDataUri(in.src)
                   THEN out = [in EXCEPT !.src = "generated",
                                         !.desc = IF in.alt # "" THEN in.alt
                                                  ELSE "abstract design"]
                   ELSE out = in

-----------------------------------------------------------------------------
(* Properties of the controller on the single-file service, checked under  *)
(* SpecSingleFile.                                                         *)

\* The text holds no JSON object: no opening or no closing brace.
NoJsonObject(text) ==
    \/ \A i \in 1..Len(text) : text[i] # LBRACE
    \/ \A i \in 1..Len(text) : text[i] # RBRACE
\* The cleaned text is not JSON.
Unparseable(text) == ~JsonParses(cleanJsonString(text))
\* No member of the text is a files array.
LacksFiles(text) == \A i \in 1..Len(text) : text[i].t # "files"

\* C28: when the text of the backend response holds no JSON object, cannot be
\* parsed, or parses to an object without a files array, the call is handled
\* as a failure: the page set is the one before, the apology is appended and
\* the error banner is set; no model message with a snapshot is committed.
C28_UnusableResponseFails ==
    ( /\ last.op \in {"resolve", "reject"}
      /\ \/ NoJsonObject(backendText)
         \/ Unparseable(backendText)
         \/ LacksFiles(backendText) ) =>
        /\ last.op = "reject"
        /\ latestPages = last.prePages
        /\ messages = Append(last.preMessages, ApologyMessage)
        /\ LastMessage.pages.null
        /\ error = ErrorText

\* C28 witness: a text without any JSON object arrived for a request made on
\* an existing page, and the page is still there after the failure.
C28_Witness ==
    /\ last.op = "reject"
    /\ backendText # <<>> /\ NoJsonObject(backendText)
    /\ Len(CurrentPages) = 1
    /\ LastMessage = ApologyMessage

\* The contents of the files of a response that make valid pages.
ValidFileContents(text) ==
    SelectSeq(FilesOf(text), LAMBDA c : isValidPage(Obj(IndexId, AppTitle, c)))

\* C29: with the single-file service the page set, and every stored snapshot,
\* holds at most one page and its id is 'index'; a committed response with a
\* valid file leaves exactly one page, whose content is that of the last valid
\* file of the response.
C29_SinglePage ==
    /\ Len(CurrentPages) <= 1
    /\ \A i \in 1..Len(CurrentPages) : CurrentPages[i].id = IndexId
    /\ \A m \in 1..Len(messages) :
           /\ Len(OrEmpty(messages[m].pages)) <= 1
           /\ \A i \in 1..Len(OrEmpty(messages[m].pages)) :
                  OrEmpty(messages[m].pages)[i].id = IndexId
    /\ (last.op = "resolve" /\ ValidFileContents(backendText) # <<>>) =>
           /\ Len(CurrentPages) = 1
           /\ CurrentPages[1].content =
                  ValidFileContents(backendText)[Len(ValidFileContents(backendText))]

\* C29 witness: a response with two valid files of different content was
\* committed onto an existing page with yet another content; one page is left.
C29_Witness ==
    /\ last.op = "resolve"
    /\ Len(last.resp) = 2
    /\ isValidPage(last.resp[1]) /\ isValidPage(last.resp[2])
    /\ last.resp[1].content # last.resp[2].content
    /\ Len(OrEmpty(last.prePages)) = 1
    /\ OrEmpty(last.prePages)[1].content \notin {last.resp[1].content, last.resp[2].content}
    /\ Len(CurrentPages) = 1

====
